---- MODULE Spec2Model ----
(***************************************************************************)
(* Form validation and registration views of the Django tutorials          *)
(* (tut9, tut10, tut11, tut14).                                            *)
(*                                                                         *)
(* Submitted text is a sequence of one-character strings, so that          *)
(* stripping, length checks and parsing are computed, not assumed.  A key  *)
(* absent from the submission is the value Missing.                        *)
(***************************************************************************)
EXTENDS Integers, Sequences, FiniteSets, TLC

VARIABLES
    request,   \* the last request handled: [view, method, POST]
    form,      \* the form instance of the last request / validation
    response,  \* what the last request returned: "none", "render", "redirect"
    profiles,  \* tut11 Profile table: set of rows [id, name, email, password]
    users,     \* tut14 User table: set of rows
    email_unique \* whether the tut14 User model declares email unique

vars == <<request, form, response, profiles, users, email_unique>>

\* ---------------------------------------------------------------- bounds
\* Largest number of rows the two tables hold together in the model.
MaxRows == 2
\* Largest number of DemoForm fields a submission changes from BaseDemo.
MaxBad == 2

\* ---------------------------------------------------------------- text
Missing == <<"<missing>">>

Digit == {"0", "1", "2", "3", "4", "5", "6", "7", "8", "9"}
Lower == {"a", "b", "c", "d", "e", "f", "g", "h", "i", "j", "k", "l", "m",
          "n", "o", "p", "q", "r", "s", "t", "u", "v", "w", "x", "y", "z"}
Upper == {"A", "B", "C", "D", "E", "F", "G", "H", "I", "J", "K", "L", "M",
          "N", "O", "P", "Q", "R", "S", "T", "U", "V", "W", "X", "Y", "Z"}
Space == {" ", "\t", "\n"}

DigitVal(c) ==
    CASE c = "0" -> 0 [] c = "1" -> 1 [] c = "2" -> 2 [] c = "3" -> 3
      [] c = "4" -> 4 [] c = "5" -> 5 [] c = "6" -> 6 [] c = "7" -> 7
      [] c = "8" -> 8 [] c = "9" -> 9

Rep(c, n) == [i \in 1..n |-> c]

AllIn(s, S) == \A i \in 1..Len(s) : s[i] \in S

IsDigits(s) == Len(s) > 0 /\ AllIn(s, Digit)

RECURSIVE ParseNat(_)
ParseNat(s) ==
    IF Len(s) = 0 THEN 0
    ELSE 10 * ParseNat(SubSeq(s, 1, Len(s) - 1)) + DigitVal(s[Len(s)])

RECURSIVE LStrip(_)
LStrip(s) ==
    IF Len(s) > 0 /\ s[1] \in Space THEN LStrip(Tail(s)) ELSE s

RECURSIVE RStrip(_)
RStrip(s) ==
    IF Len(s) > 0 /\ s[Len(s)] \in Space
    THEN RStrip(SubSeq(s, 1, Len(s) - 1)) ELSE s

\* str.strip()
Strip(s) == RStrip(LStrip(s))

\* str.split(sep) for a one-character separator
RECURSIVE Split(_, _)
Split(s, sep) ==
    IF \A i \in 1..Len(s) : s[i] # sep THEN <<s>>
    ELSE LET k == CHOOSE i \in 1..Len(s) :
                      s[i] = sep /\ \A j \in 1..(i - 1) : s[j] # sep
         IN  <<SubSeq(s, 1, k - 1)>> \o Split(SubSeq(s, k + 1, Len(s)), sep)

Count(s, c) == Cardinality({i \in 1..Len(s) : s[i] = c})

RECURSIVE Pow10(_)
Pow10(n) == IF n = 0 THEN 1 ELSE 10 * Pow10(n - 1)

\* a digit string without its leading zeros ("" for zero)
RECURSIVE DropZeros(_)
DropZeros(s) == IF Len(s) > 0 /\ s[1] = "0" THEN DropZeros(Tail(s)) ELSE s

\* ---------------------------------------------------------------- validators
IndexOf(s, c) ==
    IF \E i \in 1..Len(s) : s[i] = c
    THEN CHOOSE i \in 1..Len(s) : s[i] = c /\ \A j \in 1..(i - 1) : s[j] # c
    ELSE 0

LastIndexOf(s, c) ==
    IF \E i \in 1..Len(s) : s[i] = c
    THEN CHOOSE i \in 1..Len(s) :
             s[i] = c /\ \A j \in (i + 1)..Len(s) : s[j] # c
    ELSE 0

AlNum == Digit \cup Lower \cup Upper

\* one label of a host name: letters, digits and inner hyphens
IsLabel(l) ==
    /\ Len(l) > 0
    /\ AllIn(l, AlNum \cup {"-"})
    /\ l[1] # "-"
    /\ l[Len(l)] # "-"

\* validate_ipv4_address: four decimal octets, no leading zeros
IsIPv4(s) ==
    LET parts == Split(s, ".")
    IN  /\ Len(parts) = 4
        /\ \A i \in 1..4 :
              /\ IsDigits(parts[i])
              /\ Len(parts[i]) <= 3
              /\ (Len(parts[i]) > 1 => parts[i][1] # "0")
              /\ ParseNat(parts[i]) <= 255

\* the host-name part of EmailValidator / URLValidator: dotted labels whose
\* last one is a top-level domain of two or more non-numeric characters
IsDomain(s) ==
    LET parts == Split(s, ".")
        tld == parts[Len(parts)]
    IN  /\ Len(parts) >= 2
        /\ \A i \in 1..Len(parts) : IsLabel(parts[i])
        /\ Len(tld) >= 2
        /\ ~AllIn(tld, Digit)

Localhost == <<"l", "o", "c", "a", "l", "h", "o", "s", "t">>

AtomChars == AlNum \cup {"-", "!", "#", "$", "%", "&", "'", "*", "+", "/",
                         "=", "?", "^", "_", "{", "}", "|", "~"}

\* EmailValidator.__call__: rsplit at the last "@", dot-atom user part,
\* domain in the allowlist or a valid host name (quoted user parts,
\* the backquote and bracketed address literals are outside the inputs of
\* the model)
validate_email(v) ==
    LET k == LastIndexOf(v, "@")
        user == SubSeq(v, 1, k - 1)
        dom == SubSeq(v, k + 1, Len(v))
        atoms == Split(user, ".")
    IN  /\ k > 0
        /\ Len(v) <= 320
        /\ \A i \in 1..Len(atoms) :
              Len(atoms[i]) > 0 /\ AllIn(atoms[i], AtomChars)
        /\ (dom = Localhost \/ IsDomain(dom))

\* validate_slug: ^[-a-zA-Z0-9_]+\Z
validate_slug(v) == Len(v) > 0 /\ AllIn(v, AlNum \cup {"-", "_"})

\* the phone_number pattern ^\+?1?\d{9,15}$
PhoneRegex(v) ==
    LET a == IF Len(v) > 0 /\ v[1] = "+" THEN Tail(v) ELSE v
        b == IF Len(a) > 0 /\ a[1] = "1" THEN Tail(a) ELSE a
        DigitsRun(x) == AllIn(x, Digit) /\ Len(x) >= 9 /\ Len(x) <= 15
    IN  DigitsRun(a) \/ DigitsRun(b)

UrlSchemes == { <<"h", "t", "t", "p">>, <<"h", "t", "t", "p", "s">>,
                <<"f", "t", "p">>, <<"f", "t", "p", "s">> }

\* URLField.to_python followed by URLValidator: a value without a scheme is
\* given "http://"; the scheme must be one of UrlSchemes and the host a host
\* name, localhost or an IPv4 address (ports, user info and IPv6 hosts are
\* outside the inputs of the model)
validate_url(v) ==
    LET k == IndexOf(v, ":")
        scheme == SubSeq(v, 1, k - 1)
        rest == IF k = 0 THEN v ELSE SubSeq(v, k + 3, Len(v))
        host == Split(rest, "/")[1]
    IN  /\ k > 0 => /\ scheme \in UrlSchemes
                    /\ Len(v) >= k + 2
                    /\ v[k + 1] = "/"
                    /\ v[k + 2] = "/"
        /\ AllIn(v, AlNum \cup {"-", ".", "/", ":", "_", "?", "=", "&", "%", "~", "#"})
        /\ (host = Localhost \/ IsDomain(host) \/ IsIPv4(host))

IsLeap(y) == (y % 4 = 0 /\ y % 100 # 0) \/ y % 400 = 0

DaysIn(y, m) ==
    IF m = 2 THEN (IF IsLeap(y) THEN 29 ELSE 28)
    ELSE IF m \in {4, 6, 9, 11} THEN 30 ELSE 31

ValidYMD(y, m, d) == y >= 1 /\ m \in 1..12 /\ d >= 1 /\ d <= DaysIn(y, m)

OneOrTwoDigits(s) == IsDigits(s) /\ Len(s) <= 2

\* strptime over the numeric DATE_INPUT_FORMATS: %Y-%m-%d, %m/%d/%Y, %m/%d/%y
\* (the month-name formats are outside the inputs of the model)
DateOk(v) ==
    LET a == Split(v, "-")
        b == Split(v, "/")
    IN  \/ /\ Len(a) = 3
           /\ IsDigits(a[1]) /\ Len(a[1]) = 4
           /\ OneOrTwoDigits(a[2]) /\ OneOrTwoDigits(a[3])
           /\ ValidYMD(ParseNat(a[1]), ParseNat(a[2]), ParseNat(a[3]))
        \/ /\ Len(b) = 3
           /\ OneOrTwoDigits(b[1]) /\ OneOrTwoDigits(b[2])
           /\ IsDigits(b[3]) /\ Len(b[3]) \in {2, 4}
           /\ ValidYMD(IF Len(b[3]) = 4 THEN ParseNat(b[3])
                       ELSE IF ParseNat(b[3]) >= 69 THEN 1900 + ParseNat(b[3])
                       ELSE 2000 + ParseNat(b[3]),
                       ParseNat(b[1]), ParseNat(b[2]))

\* %H:%M or %H:%M:%S
TimeOk(v) ==
    LET t == Split(v, ":")
    IN  /\ Len(t) \in {2, 3}
        /\ \A i \in 1..Len(t) : OneOrTwoDigits(t[i])
        /\ ParseNat(t[1]) <= 23
        /\ \A i \in 2..Len(t) : ParseNat(t[i]) <= 59

\* DateTimeField.to_python: a date, then optionally "T" or " " and a time
DateTimeOk(v) ==
    LET k == IF IndexOf(v, "T") > 0 THEN IndexOf(v, "T") ELSE IndexOf(v, " ")
    IN  IF k = 0 THEN DateOk(v)
        ELSE DateOk(SubSeq(v, 1, k - 1)) /\ TimeOk(SubSeq(v, k + 1, Len(v)))

\* a numeral without its sign
Unsigned(w) == IF Len(w) > 0 /\ w[1] \in {"-", "+"} THEN Tail(w) ELSE w

\* int() of the text w: [ok, n]
ParseSigned(w, d) ==
    IF IsDigits(d)
    THEN [ok |-> TRUE,
          n |-> IF w[1] = "-" THEN 0 - ParseNat(d) ELSE ParseNat(d)]
    ELSE [ok |-> FALSE, n |-> 0]

\* IntegerField.re_decimal: a trailing ".0*" is removed
DropDotZeros(v, k) ==
    IF k > 0 /\ AllIn(SubSeq(v, k + 1, Len(v)), {"0"})
    THEN SubSeq(v, 1, k - 1) ELSE v

ParseIntText(w) == ParseSigned(w, Unsigned(w))

ParseIntStripped(v) == ParseIntText(DropDotZeros(v, IndexOf(v, ".")))

\* int(re_decimal.sub("", str(value))), int() ignoring outer whitespace
ParseInt(raw) == ParseIntStripped(Strip(raw))

\* the parts of a decimal numeral: sign, integer digits, fraction digits
MakeDecimal(neg, onedot, ip, fp, coef) ==
    IF onedot /\ AllIn(ip \o fp, Digit) /\ Len(ip \o fp) > 0
    THEN [ok |-> TRUE, neg |-> neg /\ coef # <<>>,
          digits |-> IF coef = <<>> THEN <<"0">> ELSE coef,
          exp |-> 0 - Len(fp)]
    ELSE [ok |-> FALSE, neg |-> FALSE, digits |-> <<"0">>, exp |-> 0]

ParseDecimalParts(neg, onedot, ip, fp) ==
    MakeDecimal(neg, onedot, ip, fp, DropZeros(ip \o fp))

ParseDecimalUnsigned(neg, u, k) ==
    ParseDecimalParts(neg, Count(u, ".") <= 1,
                      IF k = 0 THEN u ELSE SubSeq(u, 1, k - 1),
                      IF k = 0 THEN <<>> ELSE SubSeq(u, k + 1, Len(u)))

ParseDecimalSigned(neg, u) == ParseDecimalUnsigned(neg, u, IndexOf(u, "."))

ParseDecimalText(v) ==
    ParseDecimalSigned(Len(v) > 0 /\ v[1] = "-", Unsigned(v))

\* Decimal(str(value).strip()) for plain decimal notation: the sign, the
\* coefficient digits without leading zeros and the exponent, as
\* Decimal.as_tuple() gives them (exponent notation, NaN and Infinity are
\* outside the inputs of the model)
ParseDecimal(raw) == ParseDecimalText(Strip(raw))

\* the value of a parsed decimal times 10^scale, for scale >= -exp
Scaled(d, scale) ==
    (IF d.neg THEN -1 ELSE 1) * ParseNat(d.digits) * Pow10(scale + d.exp)

\* DecimalValidator.__call__: the messages of the limits the value breaks
DecimalValidator(d, max_digits, decimal_places) ==
    LET n == Len(d.digits)
        e == 0 - d.exp
        digits == IF e > n THEN e ELSE n
        decimals == e
        whole == digits - decimals
    IN  IF digits > max_digits THEN <<"max_digits">>
        ELSE IF decimals > decimal_places THEN <<"max_decimal_places">>
        ELSE IF whole > max_digits - decimal_places THEN <<"max_whole_digits">>
        ELSE <<>>

\* ---------------------------------------------------------------- fields
\* A form field as django.forms.Field.__init__ leaves it when given no
\* arguments: required, stripping, no limits.  A limit is <<>> or <<n>>.
Field(name, kind) ==
    [name |-> name, kind |-> kind, required |-> TRUE, strip |-> TRUE,
     min_length |-> <<>>, max_length |-> <<>>,
     min_value |-> <<>>, max_value |-> <<>>,
     max_digits |-> <<>>, decimal_places |-> <<>>,
     choices |-> {}, validators |-> <<>>, invalid |-> ""]

TextKinds == {"char", "email", "slug", "regex", "url", "ip"}

Ok(v) == [errors |-> <<>>, value |-> v]
Err(msg) == [errors |-> <<msg>>, value |-> <<>>]
ErrIf(cond, msg) == IF cond THEN <<msg>> ELSE <<>>

HttpPrefix == <<"h", "t", "t", "p", ":", "/", "/">>

ImageExtensions == {"png", "jpg", "jpeg", "gif", "bmp", "webp"}

\* the validators of a text field, in the order Field.run_validators runs
\* them: the kind's default validator, the validators= argument (a list of
\* MinLengthValidator limits), then the length validators CharField.__init__
\* appends; a field's own "invalid" message replaces the default one
RunTextValidators(f, v) ==
    LET invalid(d) == IF f.invalid = "" THEN d ELSE f.invalid
        custom[i \in 0..Len(f.validators)] ==
            IF i = 0 THEN <<>>
            ELSE custom[i - 1]
                   \o ErrIf(Len(v) < f.validators[i], "min_length")
    IN  (CASE f.kind = "email" ->
                ErrIf(~validate_email(v), invalid("Enter a valid email address."))
           [] f.kind = "slug" ->
                ErrIf(~validate_slug(v), invalid("Enter a valid slug."))
           [] f.kind = "regex" ->
                ErrIf(~PhoneRegex(v), invalid("Enter a valid value."))
           [] f.kind = "url" ->
                ErrIf(~validate_url(v), invalid("Enter a valid URL."))
           [] f.kind = "ip" ->
                ErrIf(~IsIPv4(v), invalid("Enter a valid IPv4 address."))
           [] OTHER -> <<>>)
        \o custom[Len(f.validators)]
        \o ErrIf(f.min_length # <<>> /\ Len(v) < f.min_length[1], "min_length")
        \o ErrIf(f.max_length # <<>> /\ Len(v) > f.max_length[1], "max_length")

\* Required letting an empty value through
Required_never(f) == Ok(<<>>)

\* Field.validate on an empty value
Required(f) ==
    IF f.required THEN Err("This field is required.") ELSE Ok(<<>>)

\* Field.clean's end: the collected ValidationErrors, or the value
Validated(errs, value) ==
    IF errs # <<>> THEN [errors |-> errs, value |-> <<>>] ELSE Ok(value)

\* URLField.to_python: a value without a scheme is given "http://"
TextToPython(f, v) ==
    IF f.kind = "url" /\ IndexOf(v, ":") = 0 THEN HttpPrefix \o v ELSE v

\* CharField.clean on the stripped value: validate checks required,
\* run_validators is skipped for an empty value
CleanTextValue(f, v) ==
    IF v = <<>> THEN Required(f)
    ELSE Validated(RunTextValidators(f, v), TextToPython(f, v))

\* CharField.clean and its subclasses: to_python strips
CleanText(f, raw) ==
    CleanTextValue(f, IF raw = Missing THEN <<>>
                      ELSE IF f.strip THEN Strip(raw) ELSE raw)

\* IntegerField.clean once parsed: max_value is checked before min_value
CleanParsedInteger(f, p) ==
    IF ~p.ok THEN Err("Enter a whole number.")
    ELSE Validated(
           ErrIf(f.max_value # <<>> /\ p.n > f.max_value[1], "max_value")
             \o ErrIf(f.min_value # <<>> /\ p.n < f.min_value[1], "min_value"),
           p.n)

\* IntegerField.clean
CleanInteger(f, raw) ==
    IF raw = Missing \/ raw = <<>> THEN Required(f)
    ELSE CleanParsedInteger(f, ParseInt(raw))

\* DecimalField.clean once parsed: the value validators, then
\* DecimalValidator
CleanParsedDecimal(f, d) ==
    IF ~d.ok THEN Err("Enter a number.")
    ELSE Validated(
           ErrIf(f.max_value # <<>>
                   /\ Scaled(d, 0 - d.exp) > f.max_value[1] * Pow10(0 - d.exp),
                 "max_value")
             \o ErrIf(f.min_value # <<>>
                        /\ Scaled(d, 0 - d.exp) < f.min_value[1] * Pow10(0 - d.exp),
                      "min_value")
             \o DecimalValidator(d, f.max_digits[1], f.decimal_places[1]),
           [neg |-> d.neg, digits |-> d.digits, exp |-> d.exp])

\* DecimalField.clean
CleanDecimal(f, raw) ==
    IF raw = Missing \/ raw = <<>> THEN Required(f)
    ELSE CleanParsedDecimal(f, ParseDecimal(raw))

\* BaseTemporalField.to_python on the stripped value
CleanTemporalValue(f, v) ==
    IF f.kind = "date"
    THEN (IF DateOk(v) THEN Ok(v) ELSE Err("Enter a valid date."))
    ELSE (IF DateTimeOk(v) THEN Ok(v) ELSE Err("Enter a valid date/time."))

\* DateField.clean / DateTimeField.clean
CleanTemporal(f, raw) ==
    IF raw = Missing \/ raw = <<>> THEN Required(f)
    ELSE CleanTemporalValue(f, Strip(raw))

FalseWords == { <<"f", "a", "l", "s", "e">>, <<"F", "a", "l", "s", "e">>, <<"0">> }
TrueWords == { <<"t", "r", "u", "e">>, <<"T", "r", "u", "e">>, <<"1">> }

\* BooleanField.clean behind CheckboxInput: an absent key is False
CleanBoolean(f, raw) ==
    LET b == ~(raw = Missing \/ raw = <<>> \/ raw \in FalseWords)
    IN  IF ~b /\ f.required THEN Err("This field is required.") ELSE Ok(b)

\* NullBooleanField.clean: validate() is empty, so it never fails
CleanNullBoolean(f, raw) ==
    Ok(IF raw \in TrueWords THEN "True"
       ELSE IF raw \in FalseWords THEN "False" ELSE "None")

\* ChoiceField.clean: no stripping, membership for a non-empty value
CleanChoice(f, raw) ==
    LET v == IF raw = Missing THEN <<>> ELSE raw
    IN  IF v = <<>>
        THEN (IF f.required THEN Err("This field is required.") ELSE Ok(<<>>))
        ELSE IF v \notin f.choices
        THEN Err("Select a valid choice.")
        ELSE Ok(v)

\* MultipleChoiceField.clean: raw is the list QueryDict.getlist gives
CleanMultipleChoice(f, raw) ==
    IF raw = <<>>
    THEN (IF f.required THEN Err("This field is required.") ELSE Ok(<<>>))
    ELSE IF \E i \in 1..Len(raw) : raw[i] \notin f.choices
    THEN Err("Select a valid choice.")
    ELSE Ok(raw)

\* FileField.clean / ImageField.clean: raw is the list of uploads under the
\* field's name, a file being [name, ext, size, decodes]
CleanFile(f, raw) ==
    IF raw = <<>>
    THEN (IF f.required THEN Err("This field is required.") ELSE Ok(<<>>))
    ELSE LET u == raw[Len(raw)]
         IN  IF u.name = "" THEN Err("No file was submitted.")
             ELSE IF u.size = 0 THEN Err("The submitted file is empty.")
             ELSE IF f.kind = "image" /\ ~u.decodes
             THEN Err("Upload a valid image.")
             ELSE IF f.kind = "image" /\ u.ext \notin ImageExtensions
             THEN Err("File extension is not allowed.")
             ELSE Ok(u)

\* Field.clean, by kind: [errors, value]
CleanField(f, raw) ==
    CASE f.kind \in TextKinds -> CleanText(f, raw)
      [] f.kind = "integer" -> CleanInteger(f, raw)
      [] f.kind = "decimal" -> CleanDecimal(f, raw)
      [] f.kind \in {"date", "datetime"} -> CleanTemporal(f, raw)
      [] f.kind = "boolean" -> CleanBoolean(f, raw)
      [] f.kind = "nullboolean" -> CleanNullBoolean(f, raw)
      [] f.kind = "choice" -> CleanChoice(f, raw)
      [] f.kind = "multichoice" -> CleanMultipleChoice(f, raw)
      [] f.kind \in {"file", "image"} -> CleanFile(f, raw)

\* ---------------------------------------------------------------- forms
TECH == <<"t", "e", "c", "h">>
ART == <<"a", "r", "t">>
SPORTS == <<"s", "p", "o", "r", "t", "s">>

\* tut9 Registration
Registration_tut9 ==
    << Field("first_name", "char"), Field("last_name", "char"),
       Field("email", "email"), Field("city", "char") >>

\* tut9 Login
Login == << Field("email", "email"), Field("password", "char") >>

\* tut11 Registration
Registration_tut11 ==
    << Field("name", "char"), Field("email", "email"),
       Field("password", "char") >>

\* the fields tut10 DemoForm declares, in order
DemoFormFields ==
    << [Field("name", "char") EXCEPT !.max_length = <<100>>, !.validators = <<3>>],
       Field("email", "email"),
       [Field("pin_code", "integer") EXCEPT
           !.min_value = <<1000>>, !.max_value = <<999999>>],
       [Field("age", "integer") EXCEPT
           !.min_value = <<0>>, !.max_value = <<100>>],
       Field("date_of_birth", "date"),
       Field("appointment_datetime", "datetime"),
       [Field("is_subscribed", "boolean") EXCEPT !.required = FALSE],
       Field("agree_terms", "nullboolean"),
       [Field("gender", "choice") EXCEPT !.choices = {<<"M">>, <<"F">>, <<"O">>}],
       [Field("interests", "multichoice") EXCEPT
           !.choices = {TECH, ART, SPORTS}],
       [Field("profile_image", "image") EXCEPT !.required = FALSE],
       [Field("resume", "file") EXCEPT !.required = FALSE],
       [Field("website", "url") EXCEPT !.required = FALSE],
       [Field("phone_number", "regex") EXCEPT !.invalid = "Invalid phone number"],
       [Field("password", "char") EXCEPT !.min_length = <<8>>],
       [Field("slug", "slug") EXCEPT !.max_length = <<50>>],
       Field("ip_address", "ip"),
       [Field("rating", "decimal") EXCEPT
           !.max_digits = <<4>>, !.decimal_places = <<2>>,
           !.min_value = <<0>>, !.max_value = <<10>>] >>

\* DemoForm with rating allowed up to 100
DemoForm_rating100 == [DemoFormFields EXCEPT ![18].max_value = <<100>>]

\* DemoForm with interests declared required=False
DemoForm_interests_optional == [DemoFormFields EXCEPT ![10].required = FALSE]

\* tut10 DemoForm
DemoForm == DemoFormFields

\* tut14 RegistrationForm: the two model fields of Meta.fields, then the two
\* declared password fields
RegistrationForm ==
    << Field("email", "email"), Field("name", "char"),
       Field("password", "char"), Field("confirm_password", "char") >>

Schema(cls) ==
    CASE cls = "tut9.Registration" -> Registration_tut9
      [] cls = "tut9.Login" -> Login
      [] cls = "tut11.Registration" -> Registration_tut11
      [] cls = "tut10.DemoForm" -> DemoForm
      [] cls = "tut14.RegistrationForm" -> RegistrationForm

FieldNames(schema) == {schema[i].name : i \in 1..Len(schema)}

\* clean_name with the limit 3 in place of 4
clean_name_min3(cleaned_data) ==
    IF "name" \notin DOMAIN cleaned_data
    THEN [raised |-> "KeyError", message |-> "name", value |-> <<>>]
    ELSE IF Len(cleaned_data["name"]) < 3
    THEN [raised |-> "ValidationError",
          message |-> "Enter more than or equal 4 char", value |-> <<>>]
    ELSE [raised |-> "", message |-> "", value |-> cleaned_data["name"]]

\* tut11 Registration.clean_name
clean_name(cleaned_data) ==
    IF "name" \notin DOMAIN cleaned_data
    THEN [raised |-> "KeyError", message |-> "name", value |-> <<>>]
    ELSE LET name_value == cleaned_data["name"]
         IN  IF Len(name_value) < 4
             THEN [raised |-> "ValidationError",
                   message |-> "Enter more than or equal 4 char",
                   value |-> <<>>]
             ELSE [raised |-> "", message |-> "", value |-> name_value]

\* hasattr(self, "clean_%s" % name)
HasCleanMethod(cls, name) == cls = "tut11.Registration" /\ name = "name"

\* m without key k
Drop(m, k) == [x \in (DOMAIN m) \ {k} |-> m[x]]

\* m with m[k] = v
Put(m, k, v) == (k :> v) @@ m

\* the end of one turn of the loop of BaseForm._clean_fields, for a form
\* with a clean_<name>() that returned or raised h: a ValidationError goes to
\* add_error, which also removes the field from cleaned_data
AfterCleanMethod(f, acc, cd, h) ==
    IF h.raised = "ValidationError"
    THEN [acc EXCEPT !.errors = Put(@, f.name, <<h.message>>),
                     !.cleaned_data = Drop(cd, f.name)]
    ELSE IF h.raised # ""
    THEN [acc EXCEPT !.exception = h.raised]
    ELSE [acc EXCEPT !.cleaned_data = Put(cd, f.name, h.value)]

\* one turn of the loop with the field's value stored in cleaned_data
AfterFieldClean(cls, f, acc, cd) ==
    IF ~HasCleanMethod(cls, f.name)
    THEN [acc EXCEPT !.cleaned_data = cd]
    ELSE AfterCleanMethod(f, acc, cd, clean_name(cd))

\* one turn of the loop, r being what the field's clean() gave
AfterField(cls, f, acc, r) ==
    IF acc.exception # "" THEN acc
    ELSE IF r.errors # <<>>
    THEN [acc EXCEPT !.errors = Put(@, f.name, r.errors)]
    ELSE AfterFieldClean(cls, f, acc, Put(acc.cleaned_data, f.name, r.value))

\* CleanOne giving up once an earlier field has an error
CleanOne_first_error(cls, f, data, acc) ==
    IF DOMAIN acc.errors # {} THEN acc
    ELSE AfterField(cls, f, acc, CleanField(f, data[f.name]))

\* one turn of the loop of BaseForm._clean_fields for field f: the field's
\* clean(), then clean_<name>() if the form has one
CleanOne(cls, f, data, acc) == AfterField(cls, f, acc, CleanField(f, data[f.name]))

\* BaseForm._clean_fields: every field of the form, in declaration order
RECURSIVE _clean_fields(_, _, _)
_clean_fields(cls, data, n) ==
    IF n = 0 THEN [cleaned_data |-> <<>>, errors |-> <<>>, exception |-> ""]
    ELSE CleanOne(cls, Schema(cls)[n], data, _clean_fields(cls, data, n - 1))

\* the bound form after full_clean()
BoundForm(cls, data, r) ==
    [cls |-> cls, is_bound |-> TRUE, data |-> data,
     cleaned_data |-> r.cleaned_data, errors |-> r.errors,
     exception |-> r.exception]

\* Form(data) followed by full_clean()
full_clean(cls, data) ==
    BoundForm(cls, data, _clean_fields(cls, data, Len(Schema(cls))))

\* Form(): the unbound form
Unbound(cls) ==
    [cls |-> cls, is_bound |-> FALSE, data |-> <<>>,
     cleaned_data |-> <<>>, errors |-> <<>>, exception |-> ""]

\* BaseForm.is_valid
is_valid(fm) == fm.is_bound /\ DOMAIN fm.errors = {}

\* ---------------------------------------------------------------- storage
\* the AutoField id the database gives the next inserted row
NewId(rows) ==
    IF rows = {} THEN 1
    ELSE 1 + (CHOOSE m \in {r.id : r \in rows} : \A r \in rows : r.id <= m)

\* Model.save() of an instance without a primary key: INSERT
save(rows, obj) == rows \cup {[obj EXCEPT !.id = NewId(rows)]}

\* the salts get_random_string can give the hasher
Salts == {"salt1", "salt2"}

\* make_password: "<algorithm>$<salt>$<digest>", the digest being kept as
\* the symbolic image of (password, salt)
make_password(raw, salt) == <<"pbkdf2_sha256$", salt, "$">> \o raw

\* check_password
check_password(raw, encoded) ==
    /\ Len(encoded) >= 3
    /\ encoded[1] = "pbkdf2_sha256$"
    /\ encoded = make_password(raw, encoded[2])

\* AbstractBaseUser.set_password
set_password(user, raw, salt) ==
    [user EXCEPT !.password = make_password(raw, salt)]

\* the value the User model gives is_active when the view sets none
UserIsActiveDefault == TRUE

\* ModelForm.save(commit=False): construct_instance copies the cleaned
\* values of the form fields that are model fields (confirm_password is not)
construct_instance(cleaned_data) ==
    [id |-> 0, email |-> cleaned_data["email"], name |-> cleaned_data["name"],
     password |-> cleaned_data["password"], is_active |-> UserIsActiveDefault]

\* BaseModelForm._post_clean: Model.validate_unique on the email column
\* when the model declares it unique
_post_clean(fm, rows, unique) ==
    IF /\ unique
       /\ "email" \in DOMAIN fm.cleaned_data
       /\ \E r \in rows : r.email = fm.cleaned_data["email"]
    THEN [fm EXCEPT
             !.errors = Put(@, "email", <<"User with this Email already exists.">>),
             !.cleaned_data = Drop(@, "email")]
    ELSE fm

\* RegistrationForm with a clean() that rejects two different passwords
RegistrationForm_full_clean_compare(data, rows, unique) ==
    LET fm == _post_clean(full_clean("tut14.RegistrationForm", data), rows, unique)
    IN  IF /\ {"password", "confirm_password"} \subseteq DOMAIN fm.cleaned_data
           /\ fm.cleaned_data["password"] # fm.cleaned_data["confirm_password"]
        THEN [fm EXCEPT !.errors = Put(@, "confirm_password",
                                       <<"Passwords do not match.">>),
                        !.cleaned_data = Drop(@, "confirm_password")]
        ELSE fm

\* RegistrationForm(request.POST) followed by full_clean()
RegistrationForm_full_clean(data, rows, unique) ==
    _post_clean(full_clean("tut14.RegistrationForm", data), rows, unique)

\* ---------------------------------------------------------------- inputs
NAME_SAM == <<"S", "a", "m">>
NAME_SAMU == <<"S", "a", "m", "u">>
NAME_SAMUEL == <<"S", "a", "m", "u", "e", "l">>
NAME_SAM_PADDED == <<"S", "a", "m", " ", " ">>
EMAIL_SAM == <<"s", "a", "m", "@", "e", "x", "a", "m", "p", "l", "e", ".", "c", "o", "m">>
EMAIL_BOB == <<"b", "o", "b", "@", "e", "x", "a", "m", "p", "l", "e", ".", "c", "o", "m">>
EMAIL_BAD == <<"s", "a", "m", ".", "e", "x", "a", "m", "p", "l", "e", ".", "c", "o", "m">>
PW_LONG == <<"l", "o", "n", "g", "e", "n", "o", "u", "g", "h">>
PW_OTHER == <<"d", "i", "f", "f", "e", "r", "e", "n", "t", "1">>

Methods == {"GET", "POST"}

\* request.POST of the tut11 registration page
Posts11 ==
    [name : {Missing, NAME_SAM, NAME_SAMU, NAME_SAMUEL, NAME_SAM_PADDED},
     email : {EMAIL_SAM, EMAIL_BAD},
     password : {PW_LONG, <<>>}]

\* request.POST of the tut14 register page
Posts14 ==
    [email : {EMAIL_SAM, EMAIL_BOB, EMAIL_BAD},
     name : {NAME_SAMUEL, <<>>},
     password : {PW_LONG, Missing},
     confirm_password : {PW_LONG, PW_OTHER, <<>>}]

Rows == Cardinality(profiles) + Cardinality(users)

\* ---------------------------------------------------------------- views
render(template) == [status |-> "render", target |-> template]
redirect(to) == [status |-> "redirect", target |-> to]
ServerError == [status |-> "error", target |-> "500"]

\* registration_valid skipping a submission whose email is already stored
registration_valid_dedupe(fm) ==
    /\ Rows < MaxRows
    /\ profiles' =
          IF \E r \in profiles : r.email = fm.cleaned_data["email"]
          THEN profiles
          ELSE save(profiles, [id |-> 0,
                               name |-> fm.cleaned_data["name"],
                               email |-> fm.cleaned_data["email"],
                               password |-> fm.cleaned_data["password"]])
    /\ response' = redirect("/student/success")

\* tut11 views.registration, lines 10-16: the valid form is saved
registration_valid(fm) ==
    /\ Rows < MaxRows
    /\ profiles' = save(profiles, [id |-> 0,
                                   name |-> fm.cleaned_data["name"],
                                   email |-> fm.cleaned_data["email"],
                                   password |-> fm.cleaned_data["password"]])
    /\ response' = redirect("/student/success")

\* registration_POST saving the submitted values without asking is_valid()
registration_POST_unvalidated(fm) ==
    /\ form' = fm
    /\ Rows < MaxRows
    /\ profiles' = save(profiles, [id |-> 0,
                                   name |-> fm.data["name"],
                                   email |-> fm.data["email"],
                                   password |-> fm.data["password"]])
    /\ response' = redirect("/student/success")

\* tut11 views.registration, the POST branch with the form validated
registration_POST(fm) ==
    /\ form' = fm
    /\ IF fm.exception # ""
       THEN response' = ServerError /\ profiles' = profiles
       ELSE IF is_valid(fm)
       THEN registration_valid(fm)
       ELSE /\ profiles' = profiles
            /\ response' = render("student/registration.html")

\* tut11 views.registration
registration(method, POST) ==
    /\ request' = [view |-> "registration", method |-> method,
                   POST |-> IF method = "POST" THEN POST ELSE <<>>]
    /\ IF method = "POST"
       THEN registration_POST(full_clean("tut11.Registration", POST))
       ELSE /\ form' = Unbound("tut11.Registration")
            /\ profiles' = profiles
            /\ response' = render("student/registration.html")
    /\ UNCHANGED <<users, email_unique>>

\* register_view_valid without "user.is_active = False"
register_view_valid_active(fm, salt) ==
    /\ Rows < MaxRows
    /\ users' = save(users,
                     set_password(construct_instance(fm.cleaned_data),
                                  fm.cleaned_data["password"], salt))
    /\ response' = redirect("login")

\* tut14 views.register_view, lines 19-24: the valid form is saved
register_view_valid(fm, salt) ==
    /\ Rows < MaxRows
    /\ users' = save(users,
                     [set_password(construct_instance(fm.cleaned_data),
                                   fm.cleaned_data["password"], salt)
                        EXCEPT !.is_active = FALSE])
    /\ response' = redirect("login")

\* tut14 views.register_view, the POST branch with the form validated
register_view_POST(fm, salt) ==
    /\ form' = fm
    /\ IF is_valid(fm)
       THEN register_view_valid(fm, salt)
       ELSE /\ users' = users
            /\ response' = render("account/register.html")

\* tut14 views.register_view
register_view(method, POST, salt) ==
    /\ request' = [view |-> "register_view", method |-> method,
                   POST |-> IF method = "POST" THEN POST ELSE <<>>]
    /\ IF method = "POST"
       THEN register_view_POST(
                RegistrationForm_full_clean(POST, users, email_unique), salt)
       ELSE /\ form' = Unbound("tut14.RegistrationForm")
            /\ users' = users
            /\ response' = render("account/register.html")
    /\ UNCHANGED <<profiles, email_unique>>

NoRequest == [view |-> "", method |-> "", POST |-> <<>>]
NoResponse == [status |-> "none", target |-> ""]

Init ==
    /\ request = NoRequest
    /\ form = Unbound("")
    /\ response = NoResponse
    /\ profiles = {}
    /\ users = {}
    /\ email_unique \in BOOLEAN

Registration11 == \E m \in Methods, d \in Posts11 : registration(m, d)

Register14 ==
    \E m \in Methods, d \in Posts14, s \in Salts : register_view(m, d, s)

Next == Registration11 \/ Register14

Spec == Init /\ [][Next]_vars

\* ---------------------------------------------------------------- form inputs
\* a DemoForm submission every field of which is valid
BaseDemo ==
    [name |-> NAME_SAMUEL,
     email |-> EMAIL_SAM,
     pin_code |-> <<"1", "1", "0", "0", "0", "1">>,
     age |-> <<"3", "0">>,
     date_of_birth |-> <<"1", "9", "9", "4", "-", "0", "2", "-", "2", "8">>,
     appointment_datetime |-> <<"2", "0", "2", "5", "-", "0", "1", "-", "1", "5", "T", "1", "0", ":", "3", "0">>,
     is_subscribed |-> Missing,
     agree_terms |-> <<"T", "r", "u", "e">>,
     gender |-> <<"M">>,
     interests |-> <<TECH>>,
     profile_image |-> <<>>,
     resume |-> <<>>,
     website |-> <<>>,
     phone_number |-> <<"+", "1", "2", "3", "4", "5", "6", "7", "8", "9">>,
     password |-> PW_LONG,
     slug |-> <<"m", "y", "-", "s", "l", "u", "g", "_", "1">>,
     ip_address |-> <<"1", "9", "2", ".", "1", "6", "8", ".", "0", ".", "1">>,
     rating |-> <<"7", ".", "5">>]

Upload(name, ext, size, decodes) ==
    [name |-> name, ext |-> ext, size |-> size, decodes |-> decodes]

\* the other values a submission gives a DemoForm field
Alts(n) ==
    CASE n = "name" ->
           << Missing, <<"a", "b">>, <<"a", "b", "c">>, Rep("a", 100), Rep("a", 101),
              Rep("a", 100) \o <<" ">>, <<" ", " ", " ">> >>
      [] n = "email" -> << Missing, EMAIL_BAD, <<"s", "a", "m", "@", "l", "o", "c", "a", "l", "h", "o", "s", "t">> >>
      [] n = "pin_code" ->
           << <<"9", "9", "9">>, <<"9", "9", "9", "9", "9", "9">>, <<"1", "0", "0", "0", "0", "0", "0">>, <<" ", "1", "0", "0", "0", "0", "0", "0", " ">>,
              <<"1", "0", "0", "0", "0", "0", "0", ".", "0">>, <<"1", "2", "a", "b">>, <<>> >>
      [] n = "age" -> << <<"1", "0", "0">>, <<"1", "0", "1">>, <<"-", "1">>, <<"0">>, Missing >>
      [] n = "date_of_birth" ->
           << <<"2", "0", "2", "3", "-", "0", "2", "-", "2", "9">>, <<"0", "2", "/", "2", "8", "/", "1", "9", "9", "4">>, Missing >>
      [] n = "appointment_datetime" ->
           << <<"2", "0", "2", "5", "-", "0", "1", "-", "1", "5", "T", "2", "5", ":", "0", "0">>, <<"2", "0", "2", "5", "-", "0", "1", "-", "1", "5", " ", "1", "0", ":", "3", "0", ":", "0", "0">>, <<>> >>
      [] n = "is_subscribed" -> << <<"o", "n">>, <<"f", "a", "l", "s", "e">> >>
      [] n = "agree_terms" -> << Missing, <<"F", "a", "l", "s", "e">>, <<"m", "a", "y", "b", "e">> >>
      [] n = "gender" -> << <<"X">>, <<"F">>, Missing >>
      [] n = "interests" ->
           << <<>>, <<TECH, ART, SPORTS>>, <<<<"c", "h", "e", "s", "s">>>>,
              <<TECH, <<"c", "h", "e", "s", "s">>>> >>
      [] n = "profile_image" ->
           << <<Upload("me.png", "png", 10, TRUE)>>,
              <<Upload("me.png", "png", 10, FALSE)>>,
              <<Upload("me.txt", "txt", 10, TRUE)>> >>
      [] n = "resume" ->
           << <<Upload("cv.pdf", "pdf", 10, FALSE)>>,
              <<Upload("cv.pdf", "pdf", 0, FALSE)>> >>
      [] n = "website" ->
           << <<"h", "t", "t", "p", "s", ":", "/", "/", "e", "x", "a", "m", "p", "l", "e", ".", "c", "o", "m", "/", "a">>, <<"e", "x", "a", "m", "p", "l", "e", ".", "c", "o", "m">>, <<"g", "o", "p", "h", "e", "r", ":", "/", "/", "e", "x", "a", "m", "p", "l", "e", ".", "c", "o", "m">>,
              <<"h", "t", "t", "p", ":", "/", "/", "n", "o", "d", "o", "t">> >>
      [] n = "phone_number" ->
           << <<"1", "2", "3", "4", "5">>, <<"1", "2", "3", "4", "5", "6", "7", "8", "9", "0", "1", "2", "3", "4", "5", "6">>, <<"2", "2", "3", "4", "5", "6", "7", "8", "9", "0", "1", "2", "3", "4", "5", "6">>, Missing >>
      [] n = "password" -> << <<"s", "h", "o", "r", "t">>, <<" ", "s", "e", "v", "e", "n", "7", "7", " ">>, <<>> >>
      [] n = "slug" ->
           << Rep("s", 50), Rep("s", 51), Rep("s", 50) \o <<" ">>, <<"b", "a", "d", " ", "s", "l", "u", "g">>, Missing >>
      [] n = "ip_address" -> << <<"2", "5", "6", ".", "1", ".", "1", ".", "1">>, <<":", ":", "1">>, <<"1", "0", ".", "0", ".", "0", ".", "0", "1">>, Missing >>
      [] n = "rating" ->
           << <<"1", "5">>, <<"1", "0">>, <<"1", "0", ".", "0", "0">>, <<"1", "0", ".", "0", "1">>, <<"1", "0", ".", "0", "0", "1">>,
              <<"9", ".", "9", "9", "9">>, <<"1", "2", "3", ".", "4", "5">>, <<"-", "0", ".", "5">>, <<"0">>, <<"a", "b", "c">>, Missing >>

\* the sets of at most k field names
RECURSIVE AtMost(_, _)
AtMost(names, k) ==
    IF k = 0 THEN {{}}
    ELSE AtMost(names, k - 1)
           \cup {F \cup {n} : F \in AtMost(names, k - 1), n \in names}

\* the ways to choose one of Alts(n) for every field n of F
Picks(F) == {p \in [F -> 1..11] : \A n \in F : p[n] <= Len(Alts(n))}

\* BaseDemo with the fields of F given the chosen other values
Variant(F, pick) ==
    [n \in DOMAIN BaseDemo |-> IF n \in F THEN Alts(n)[pick[n]] ELSE BaseDemo[n]]

\* the names a tut11 Registration submission gives
Names11 ==
    {Missing, <<>>, <<" ", " ", " ">>, NAME_SAM, NAME_SAMU, NAME_SAMUEL,
     NAME_SAM_PADDED, <<" ", "S", "a", "m", " ">>, <<" ", " ", "S", "a", "m", "u", "e", "l", " ">>, <<"S", "a", " ", "m">>}

Inputs11 ==
    [name : Names11,
     email : {EMAIL_SAM, EMAIL_BAD, Missing},
     password : {PW_LONG, <<>>, Missing, <<" ">>}]

InputsRegistration9 ==
    [first_name : {NAME_SAM, Missing, <<" ">>},
     last_name : {NAME_SAMUEL, <<>>},
     email : {EMAIL_SAM, EMAIL_BAD, Missing, <<>>},
     city : {<<"P", "u", "n", "e">>, Missing}]

InputsLogin ==
    [email : {EMAIL_SAM, EMAIL_BAD, Missing, <<>>},
     password : {PW_LONG, Missing, <<>>, <<" ">>}]

\* ---------------------------------------------------------------- forms in use
\* tut9 views.registration
registration_tut9 ==
    /\ request' = [view |-> "tut9.registration", method |-> "GET", POST |-> <<>>]
    /\ form' = Unbound("tut9.Registration")
    /\ response' = render("student/registration.html")
    /\ UNCHANGED <<profiles, users, email_unique>>

\* tut9 views.login
login ==
    /\ request' = [view |-> "tut9.login", method |-> "GET", POST |-> <<>>]
    /\ form' = Unbound("tut9.Login")
    /\ response' = render("student/login.html")
    /\ UNCHANGED <<profiles, users, email_unique>>

\* DemoForm() / Registration(): a form constructed outside the views of
\* the model
NewForm ==
    /\ \E cls \in {"tut10.DemoForm", "tut11.Registration"} : form' = Unbound(cls)
    /\ request' = NoRequest
    /\ response' = NoResponse
    /\ UNCHANGED <<profiles, users, email_unique>>

\* the shown form comes back filled in: cls(data).is_valid()
Submit(cls, data) ==
    /\ form' = full_clean(cls, data)
    /\ UNCHANGED <<request, response, profiles, users, email_unique>>

\* the DemoForm submissions of the model change at most MaxBad fields of
\* BaseDemo
SubmitDemoForm ==
    /\ form = Unbound("tut10.DemoForm")
    /\ \E F \in AtMost(DOMAIN BaseDemo, MaxBad) : \E pick \in Picks(F) :
          Submit("tut10.DemoForm", Variant(F, pick))

SubmitRegistration11 ==
    /\ form = Unbound("tut11.Registration")
    /\ \E d \in Inputs11 : Submit("tut11.Registration", d)

SubmitRegistration9 ==
    /\ form = Unbound("tut9.Registration")
    /\ \E d \in InputsRegistration9 : Submit("tut9.Registration", d)

SubmitLogin ==
    /\ form = Unbound("tut9.Login")
    /\ \E d \in InputsLogin : Submit("tut9.Login", d)

NextForms ==
    \/ registration_tut9
    \/ login
    \/ NewForm
    \/ SubmitDemoForm
    \/ SubmitRegistration11
    \/ SubmitRegistration9
    \/ SubmitLogin

\* the forms of tut9, tut10 and tut11 involve no User model
InitForms == Init /\ ~email_unique

SpecForms == InitForms /\ [][NextForms]_vars

\* ---------------------------------------------------------------- properties
\* what the Validation Pass hands back besides the errors: the clean record
\* of a valid form, nothing otherwise
CleanRecord(fm) == IF is_valid(fm) THEN <<fm.cleaned_data>> ELSE <<>>

\* field f of form cls fails on this submission: its own clean() fails, or
\* the form's clean_<name>() rejects the cleaned value
FieldFails(cls, f, data) ==
    LET r == CleanField(f, data[f.name])
    IN  \/ r.errors # <<>>
        \/ /\ HasCleanMethod(cls, f.name)
           /\ clean_name((f.name :> r.value)).raised = "ValidationError"

Failing(cls, data) ==
    {Schema(cls)[i].name : i \in {j \in 1..Len(Schema(cls)) :
                                     FieldFails(cls, Schema(cls)[j], data)}}

StoreChanged == profiles' # profiles \/ users' # users

Ids(rows) == {r.id : r \in rows}

\* C1: register_view changes the User table only on a POST whose form is
\* valid, by adding one row; every stored user is inactive and no stored
\* user is ever changed
C1_PersistedInactive ==
    [][ /\ \A u \in users' : ~u.is_active
        /\ users \subseteq users'
        /\ users' # users =>
              /\ request'.view = "register_view"
              /\ request'.method = "POST"
              /\ form'.data = request'.POST
              /\ Failing("tut14.RegistrationForm", request'.POST) = {}
              /\ is_valid(form')
              /\ Cardinality(users' \ users) = 1 ]_vars

C1_Witness ==
    /\ request.view = "register_view"
    /\ request.method = "POST"
    /\ response = redirect("login")
    /\ \E u \in users : ~u.is_active /\ u.email = request.POST.email

\* C2: the password of every row a registration view stores is a hash that
\* the submitted password verifies against, never the submitted text
C2_PasswordsHashed ==
    [][ /\ \A r \in profiles' \ profiles :
              /\ r.password # Strip(request'.POST.password)
              /\ check_password(Strip(request'.POST.password), r.password)
        /\ \A u \in users' \ users :
              /\ u.password # Strip(request'.POST.password)
              /\ check_password(Strip(request'.POST.password), u.password) ]_vars

\* C3: the stores change only in a POST whose form validated with no
\* errors; a GET or a POST with an invalid form leaves both tables as they
\* were
C3_ValidationNeverMutates ==
    [][ /\ StoreChanged =>
              /\ request'.method = "POST"
              /\ form'.is_bound
              /\ form'.data = request'.POST
              /\ DOMAIN form'.errors = {}
              /\ Failing(form'.cls, request'.POST) = {}
        /\ (request'.method = "GET" \/ ~is_valid(form')) =>
              UNCHANGED <<profiles, users>> ]_vars

C3_Witness ==
    /\ request.method = "POST"
    /\ ~is_valid(form)
    /\ profiles # {}
    /\ users # {}

\* C4: the errors of a validated form name every failing field, not only
\* the first, and there is a clean record, holding every field, exactly
\* when no field fails
C4_NoShortCircuit ==
    (form.is_bound /\ form.cls \in {"tut10.DemoForm", "tut11.Registration"}) =>
        /\ DOMAIN form.errors = Failing(form.cls, form.data)
        /\ CleanRecord(form) # <<>> <=> Failing(form.cls, form.data) = {}
        /\ CleanRecord(form) # <<>> =>
              DOMAIN CleanRecord(form)[1] = FieldNames(Schema(form.cls))

C4_Witness ==
    /\ form.is_bound
    /\ form.cls = "tut10.DemoForm"
    /\ {"name", "rating"} \subseteq DOMAIN form.errors
    /\ CleanRecord(form) = <<>>

\* C5: a required field that is missing or empty is named in the errors
\* and there is no clean record (tut9 Registration and Login, tut11
\* Registration)
C5_RequiredMissing ==
    (form.is_bound
       /\ form.cls \in {"tut9.Registration", "tut9.Login", "tut11.Registration"}) =>
        \A i \in 1..Len(Schema(form.cls)) :
            LET f == Schema(form.cls)[i]
            IN  (f.required /\ form.data[f.name] \in {Missing, <<>>}) =>
                    /\ f.name \in DOMAIN form.errors
                    /\ form.errors[f.name] = <<"This field is required.">>
                    /\ CleanRecord(form) = <<>>

C5_Witness ==
    /\ form.is_bound
    /\ form.cls = "tut9.Login"
    /\ form.data["password"] = Missing
    /\ form.data["email"] = EMAIL_SAM
    /\ DOMAIN form.errors = {"password"}

\* C6: clean_name runs only on a name the built-in validator accepted and
\* never misses cleaned_data["name"]; an accepted name shorter than 4 gives
\* the error "Enter more than or equal 4 char" and no clean record, a
\* longer one is kept unchanged
C6_CleanName ==
    (form.is_bound /\ form.cls = "tut11.Registration") =>
        LET r == CleanField(Schema(form.cls)[1], form.data["name"])
        IN  /\ form.exception = ""
            /\ r.errors # <<>> =>
                  /\ "name" \in DOMAIN form.errors
                  /\ form.errors["name"] = r.errors
            /\ (r.errors = <<>> /\ Len(r.value) < 4) =>
                  /\ "name" \in DOMAIN form.errors
                  /\ form.errors["name"] = <<"Enter more than or equal 4 char">>
                  /\ "name" \notin DOMAIN form.cleaned_data
                  /\ CleanRecord(form) = <<>>
            /\ (r.errors = <<>> /\ Len(r.value) >= 4) =>
                  /\ "name" \notin DOMAIN form.errors
                  /\ form.cleaned_data["name"] = r.value

C6_Witness ==
    /\ form.is_bound
    /\ form.cls = "tut11.Registration"
    /\ form.data["name"] = NAME_SAM
    /\ form.data["email"] = EMAIL_SAM
    /\ form.data["password"] = PW_LONG
    /\ form.errors = ("name" :> <<"Enter more than or equal 4 char">>)

\* the DemoForm submission under validation
DemoBound == form.is_bound /\ form.cls = "tut10.DemoForm"

Rejected(n) == n \in DOMAIN form.errors /\ CleanRecord(form) = <<>>

\* a submitted whole number above max
IntAbove(raw, max) == ParseInt(raw).ok /\ ParseInt(raw).n > max

\* a submitted decimal above 10, or with more than 4 digits, or with more
\* than 2 decimal places
RatingAbove(raw) ==
    LET d == ParseDecimal(raw)
        places == 0 - d.exp
        total == IF places > Len(d.digits) THEN places ELSE Len(d.digits)
    IN  /\ raw # Missing
        /\ d.ok
        /\ \/ Scaled(d, places) > 10 * Pow10(places)
           \/ total > 4
           \/ places > 2

NumbersAboveRejected ==
    /\ IntAbove(form.data["pin_code"], 999999) => Rejected("pin_code")
    /\ IntAbove(form.data["age"], 100) => Rejected("age")
    /\ RatingAbove(form.data["rating"]) => Rejected("rating")

\* C7 as stated: a submitted value above the field's maximum is rejected
\* with an error on that field, the length of name and slug being that of
\* the submitted text
C7_Original ==
    DemoBound =>
        /\ (form.data["name"] # Missing /\ Len(form.data["name"]) > 100) =>
              Rejected("name")
        /\ (form.data["slug"] # Missing /\ Len(form.data["slug"]) > 50) =>
              Rejected("slug")
        /\ NumbersAboveRejected

\* C7 amended: the length of name and slug is that of the submitted text
\* without its leading and trailing whitespace
C7_MaxExceeded ==
    DemoBound =>
        /\ (form.data["name"] # Missing /\ Len(Strip(form.data["name"])) > 100) =>
              Rejected("name")
        /\ (form.data["slug"] # Missing /\ Len(Strip(form.data["slug"])) > 50) =>
              Rejected("slug")
        /\ NumbersAboveRejected

C7_Witness ==
    /\ DemoBound
    /\ form.data["rating"] = <<"1", "5">>
    /\ form.data["name"] = Rep("a", 101)
    /\ form.errors["rating"] = <<"max_value">>
    /\ form.errors["name"] = <<"max_length">>

Interests == {TECH, ART, SPORTS}

OutsideInterests ==
    \E i \in 1..Len(form.data["interests"]) :
        form.data["interests"][i] \notin Interests

\* C8 as stated: no selection is accepted, a selection outside the allowed
\* set is rejected
C8_Original ==
    DemoBound =>
        /\ form.data["interests"] = <<>> => "interests" \notin DOMAIN form.errors
        /\ OutsideInterests => Rejected("interests")

\* C8 amended: interests is required, so no selection is rejected as
\* missing; one or more selections all in the allowed set are accepted; a
\* selection outside the allowed set is rejected
C8_Interests ==
    DemoBound =>
        /\ form.data["interests"] = <<>> =>
              /\ Rejected("interests")
              /\ form.errors["interests"] = <<"This field is required.">>
        /\ (form.data["interests"] # <<>> /\ ~OutsideInterests) =>
              /\ "interests" \notin DOMAIN form.errors
              /\ "interests" \in DOMAIN form.cleaned_data
              /\ form.cleaned_data["interests"] = form.data["interests"]
        /\ OutsideInterests =>
              /\ Rejected("interests")
              /\ form.errors["interests"] = <<"Select a valid choice.">>

C8_Witness ==
    /\ DemoBound
    /\ form.data["interests"] = <<>>
    /\ form.errors = ("interests" :> <<"This field is required.">>)

\* C9: every valid POST to the tut11 registration view adds exactly one
\* Profile whose id no stored Profile has, and leaves every stored Profile
\* as it was, whether or not the same input was stored before
C9_CreateNotIdempotent ==
    [][ /\ profiles \subseteq profiles'
        /\ \A a, b \in profiles' : a.id = b.id => a = b
        /\ (/\ request'.view = "registration"
            /\ request'.method = "POST"
            /\ Failing("tut11.Registration", request'.POST) = {}) =>
              \E r \in profiles' :
                  /\ r.id \notin Ids(profiles)
                  /\ profiles' = profiles \cup {r}
                  /\ Cardinality(profiles') = Cardinality(profiles) + 1
                  /\ r.name = Strip(request'.POST.name)
                  /\ r.email = Strip(request'.POST.email) ]_vars

C9_Witness ==
    \E a, b \in profiles :
        /\ a.id # b.id
        /\ a.name = b.name
        /\ a.email = b.email
        /\ a.password = b.password

\* the fields of a tut14 submission other than confirm_password are valid
OthersValid(POST, rows, unique) ==
    /\ \A i \in 1..3 :
          CleanField(RegistrationForm[i], POST[RegistrationForm[i].name]).errors = <<>>
    /\ ~(unique /\ \E r \in rows : r.email = Strip(POST.email))

\* C10: a tut14 submission whose other fields are valid and whose
\* confirm_password is not empty is valid and is stored, with a password
\* hashed from the password field and no confirm_password, whether or not
\* the two passwords are equal
C10_ConfirmNeverCompared ==
    [][ (/\ request'.view = "register_view"
         /\ request'.method = "POST"
         /\ OthersValid(request'.POST, users, email_unique)
         /\ request'.POST.confirm_password # Missing
         /\ Strip(request'.POST.confirm_password) # <<>>) =>
            /\ is_valid(form')
            /\ response' = redirect("login")
            /\ \E u \in users' :
                  /\ u \notin users
                  /\ users' = users \cup {u}
                  /\ check_password(Strip(request'.POST.password), u.password)
                  /\ DOMAIN u = {"id", "email", "name", "password", "is_active"}
                  /\ u.email = Strip(request'.POST.email) ]_vars

C10_Witness ==
    /\ request.view = "register_view"
    /\ request.method = "POST"
    /\ request.POST.confirm_password = PW_OTHER
    /\ request.POST.password = PW_LONG
    /\ response = redirect("login")
    /\ \E u \in users :
          /\ u.email = request.POST.email
          /\ check_password(PW_LONG, u.password)
          /\ ~check_password(PW_OTHER, u.password)

====
